---- MODULE Spec2Model ----
(***************************************************************************)
(* The post-build half of packages/redwood/src/index.ts `build`: static    *)
(* asset classification, function discovery, dependency tracing through    *)
(* the readFile callback and its two caches, packaging of each function,   *)
(* route synthesis and the returned manifest.                              *)
(*                                                                         *)
(* A path is a sequence of segments; a segment (a file or directory name)  *)
(* is the sequence of its dot-separated components, so "blog/post.html" is *)
(* << <<"blog">>, <<"post", "html">> >> and the dot file ".html" is        *)
(* << <<"", "html">> >>.                                                   *)
(***************************************************************************)
EXTENDS Integers, Sequences, FiniteSets, TLC

\* ------------------------------------------------------------------ bounds

\* Most files the static root holds in one run.
MaxStatic == 2

\* Most files the functions subtree holds in one run.
MaxFuncs == 2

\* Most readFile requests the resolver issues in one run.
MaxReads == 2

\* ------------------------------------------------------------------- paths

Last(s) == s[Len(s)]

Front(s) == SubSeq(s, 1, Len(s) - 1)

\* The segment "." (one dot, nothing on either side of it).
DotSeg == <<"", "">>

\* The segment ".." (two dots).
DotDotSeg == <<"", "", "">>

\* path.normalize on segments: "." is dropped and ".." removes the segment
\* before it.
RECURSIVE NormalizeFrom(_, _)
NormalizeFrom(done, rest) ==
  IF rest = <<>> THEN done
  ELSE IF Head(rest) = DotSeg THEN NormalizeFrom(done, Tail(rest))
  ELSE IF Head(rest) = DotDotSeg /\ done # <<>> /\ Last(done) # DotDotSeg
       THEN NormalizeFrom(Front(done), Tail(rest))
  ELSE NormalizeFrom(Append(done, Head(rest)), Tail(rest))

\* path.join(a, b): concatenate, then normalise.
join(a, b) == NormalizeFrom(<<>>, a \o b)

\* Length of the longest common prefix of two paths.
RECURSIVE CommonPrefix(_, _)
CommonPrefix(a, b) ==
  IF a = <<>> \/ b = <<>> \/ Head(a) # Head(b) THEN 0
  ELSE 1 + CommonPrefix(Tail(a), Tail(b))

\* path.relative(from, to): one ".." for each segment of `from` below the
\* common prefix, then what is left of `to`.
relative(from, to) ==
  LET n == CommonPrefix(from, to)
  IN  [i \in 1..(Len(from) - n) |-> DotDotSeg] \o SubSeq(to, n + 1, Len(to))

\* Whether a base name has an extension for path.parse: it has a dot, the
\* last dot is not the first character of the name, and the name is not "..".
HasExt(base) ==
  /\ Len(base) >= 2
  /\ ~(Len(base) = 2 /\ base[1] = "")
  /\ base # DotDotSeg

\* path.parse(p): dir, base, ext (the component after the last dot, ext = ""
\* with hasExt FALSE when there is none) and name (base without ext).
parsePath(p) ==
  LET base == IF p = <<>> THEN <<"">> ELSE Last(p)
  IN  [dir    |-> IF p = <<>> THEN <<>> ELSE Front(p),
       base   |-> base,
       hasExt |-> HasExt(base),
       ext    |-> IF HasExt(base) THEN Last(base) ELSE "",
       name   |-> IF HasExt(base) THEN Front(base) ELSE base]

\* path.basename(p, "." + ext): the last segment, with the suffix removed
\* when the segment ends with it and is more than the suffix alone.
pathBasename(p, ext) ==
  LET base == Last(p)
  IN  IF Len(base) >= 2 /\ Last(base) = ext /\ Front(base) # <<"">>
      THEN Front(base)
      ELSE base

\* -------------------------------------------------------------- directories

workPath == << <<"work">> >>

\* join(workPath, 'api', 'dist', 'functions')
apiDistPath == join(workPath, << <<"api">>, <<"dist">>, <<"functions">> >>)

\* join(workPath, 'web', 'dist')
webDistPath == join(workPath, << <<"web">>, <<"dist">> >>)

\* toml?.web?.apiProxyPath?.replace(/^\//, '') ?? 'api', with no redwood.toml
\* override.
apiDir == << <<"api">> >>

\* ------------------------------------------------------------------ inputs

\* The files a static root may hold (relative to webDistPath).
StaticUniverse ==
  { << <<"index", "html">> >>,
    << <<"200", "html">> >>,
    << <<"about">> >>,
    << <<"about", "html">> >>,
    << <<"blog">>, <<"post", "html">> >>,
    << <<"app", "css">> >>,
    << <<"page", "html", "html">> >>,
    << <<"", "html">> >>,
    << <<"api">>, <<"graphql", "html">> >> }

\* The files a functions subtree may hold (relative to apiDistPath).
ApiUniverse ==
  { << <<"graphql", "js">> >>,
    << <<"bazinga", "js">> >>,
    << <<"bazinga">>, <<"bazinga", "js">> >>,
    << <<"nested">>, <<"deep">>, <<"fn", "js">> >>,
    << <<"graphql", "js", "map">> >> }

\* Absolute paths, besides the entrypoint, that the resolver may ask for.
SharedDeps ==
  { join(workPath, << <<"node_modules">>, <<"dep">>, <<"index", "js">> >>) }

\* Sets of at most n elements of S.
SubsetsUpTo(S, n) == { T \in SUBSET S : Cardinality(T) <= n }

\* ------------------------------------------------------------- JS values

Undefined == [type |-> "undefined", data |-> <<>>]

Null == [type |-> "null", data |-> <<>>]

Buffer(bytes) == [type |-> "Buffer", data |-> bytes]

String(chars) == [type |-> "string", data |-> chars]

\* A value no readFile call returns: marks "no request yet" in the history.
NoRet == [type |-> "none", data |-> <<>>]

\* JavaScript truthiness of a cache value: undefined, null and the empty
\* string are falsy; every object, an empty Buffer included, is truthy.
Truthy(v) ==
  /\ v.type \notin {"undefined", "null"}
  /\ ~(v.type = "string" /\ v.data = <<>>)

\* Buffer.prototype.toString() / String.prototype.toString(): UTF-8 decoding
\* of a Buffer (a byte that cannot start a UTF-8 sequence decodes to U+FFFD),
\* the string itself for a string.
toString(v) ==
  IF v.type = "Buffer"
  THEN String([i \in 1..Len(v.data) |->
                 IF v.data[i] < 128 THEN v.data[i] ELSE 65533])
  ELSE String(v.data)

\* Map.prototype.get: undefined for an absent key.
MapGet(m, k) == IF k \in DOMAIN m THEN m[k] ELSE Undefined

\* Map.prototype.set / obj[k] = v.
MapSet(m, k, v) == [x \in DOMAIN m \cup {k} |-> IF x = k THEN v ELSE m[x]]

\* { ...a, ...b }: the keys of both, b's value where both have the key.
Spread(a, b) ==
  [k \in DOMAIN a \cup DOMAIN b |-> IF k \in DOMAIN b THEN b[k] ELSE a[k]]

EmptyMap == <<>>

\* -------------------------------------------------------------- file refs

FileFsRef(fsPath, mode, contentType) ==
  [type |-> "FileFsRef", fsPath |-> fsPath, data |-> <<>>, mode |-> mode,
   contentType |-> contentType]

FileBlob(data, mode) ==
  [type |-> "FileBlob", fsPath |-> <<>>, data |-> data, mode |-> mode,
   contentType |-> "undefined"]

\* isSymbolicLink(mode), on the file type lstat reports.
isSymbolicLink(mode) == mode = "symlink"

\* glob(pattern, dir)'s entry for the file at dir/rel.
GlobRef(dir, rel) == FileFsRef(join(dir, rel), "regular", "undefined")

\* ----------------------------------------------------------- configuration

\* The limits of a `functions` entry of the project configuration.
Limits(memory, maxDuration) == [memory |-> memory, maxDuration |-> maxDuration]

\* A configuration: per-function overrides keyed by path, and the global
\* defaults.
Config(functions) == [functions |-> functions, defaults |-> Limits(1024, 10)]

NoOverrides == Config(EmptyMap)

\* The configurations of the runs: no override, an override keyed by the
\* source path of graphql, and one keyed by its built path.
ConfigUniverse ==
  { NoOverrides,
    Config([k \in { << <<"api">>, <<"src">>, <<"functions">>,
                        <<"graphql", "js">> >> } |-> Limits(3008, 60)]),
    Config([k \in { << <<"api">>, <<"dist">>, <<"functions">>,
                        <<"graphql", "js">> >> } |-> Limits(512, 30)]) }

\* getLambdaOptionsFromFunction({ sourceFile, config }): the override keyed
\* by sourceFile, the global defaults when there is none.
getLambdaOptionsFromFunction(sourceFile, cfg) ==
  IF sourceFile \in DOMAIN cfg.functions
  THEN cfg.functions[sourceFile]
  ELSE cfg.defaults

\* ---------------------------------------------------------------- warnings

\* The warnings a trace may resolve with: an Error with its stack, and one
\* that carries no stack.
WarningUniverse ==
  { [stack |-> String(<<"Error: ", "Failed to resolve dependency">>)],
    [stack |-> Undefined] }

\* String.prototype.replace(from, to) with a string pattern: the first
\* occurrence is replaced, on a text held as a sequence of pieces.
RECURSIVE replace(_, _, _)
replace(text, from, to) ==
  IF text = <<>> THEN <<>>
  ELSE IF text[1] = from THEN <<to>> \o Tail(text)
  ELSE <<text[1]>> \o replace(Tail(text), from, to)

\* The guard of the warnings loop with the stack test left out.
HasStackUnchecked(warning) == TRUE

\* warning?.stack
HasStack(warning) == Truthy(warning.stack)

\* for (const warning of warnings) { if (warning?.stack) debug(...) }: the
\* lines handed to debug, and whether the loop threw (replace is called on
\* the stack of every warning that passes the guard, and only a string has
\* it).
WarningsLoop(warnings) ==
  LET passed == { w \in warnings : HasStack(w) }
  IN  [logged |-> { String(replace(w.stack.data, "Error: ", "Warning: ")) :
                      w \in { x \in passed : x.stack.type = "string" } },
       threw |-> \E w \in passed : w.stack.type # "string"]

\* ------------------------------------------------------------------- state

VARIABLES
  webDistFiles,   \* glob('**', webDistPath): the files of the static root
  apiTree,        \* the files below apiDistPath
  phase,          \* where `build` is: static, loop, trace, done, aborted
  staticTodo,     \* static files the classification loop has not visited
  staticOutputs,  \* request path -> FileFsRef
  classified,     \* history: <file, key, ref> of every classification step
  functionFiles,  \* the discovered entrypoints (relative to apiDistPath)
  funcTodo,       \* entrypoints the packaging loop has not visited
  cur,            \* the entrypoint being traced (<<>> outside a trace)
  sourceCache,    \* relPath -> Buffer | null
  fsCache,        \* relPath -> File
  lambdaOutputs,  \* output name -> Lambda
  packaged,       \* history: <func, outputName> of every packaged function
  config,         \* the project configuration handed to `build`
  lastTrace,      \* history: the trace that just resolved and its warnings
  readsLeft,      \* readFile requests the resolver may still issue
  fsReads,        \* history: relPath -> number of readFileSync calls
  firstRet,       \* history: relPath -> what the first request returned
  last,           \* history: the latest readFile request and its result
  nowConfig,      \* the configuration handed to getTransformedRoutes
  routesResult,   \* what getTransformedRoutes returned
  manifest,       \* the returned { output, routes }, or NoManifest
  abortCause      \* why the run aborted ("" while it has not)

vars ==
  << webDistFiles, apiTree, phase, staticTodo, staticOutputs, classified,
     functionFiles, funcTodo, cur, sourceCache, fsCache, lambdaOutputs,
     packaged, config, lastTrace, readsLeft, fsReads, firstRet, last,
     nowConfig, routesResult, manifest, abortCause >>

NoManifest == [output |-> EmptyMap, routes |-> <<>>, returned |-> FALSE]

NoConfig == [rewrites |-> <<>>, cleanUrls |-> FALSE, trailingSlash |-> TRUE]

NoRoutes == [error |-> FALSE, routes |-> <<>>]

NoTrace ==
  [func |-> <<>>, fileList |-> {}, esmFileList |-> {}, warnings |-> {},
   logged |-> {}]

NoLast ==
  [path |-> <<>>, ret |-> NoRet, touched |-> FALSE, repeat |-> FALSE,
   code |-> "", during |-> <<>>]

\* The inputs of a run: any small static root beside one function whose trace
\* reads nothing; or any small functions subtree with a resolver that reads,
\* beside a static root that holds index.html alone; or any small functions
\* subtree under any of the configurations, with a resolver that reads
\* nothing.
Init ==
  /\ \/ /\ webDistFiles \in SubsetsUpTo(StaticUniverse, MaxStatic)
        /\ apiTree = { << <<"graphql", "js">> >> }
        /\ readsLeft = 0
        /\ config = NoOverrides
     \/ /\ webDistFiles = { << <<"index", "html">> >> }
        /\ apiTree \in SubsetsUpTo(ApiUniverse, MaxFuncs)
        /\ readsLeft = MaxReads
        /\ config = NoOverrides
     \/ /\ webDistFiles = { << <<"index", "html">> >> }
        /\ apiTree \in SubsetsUpTo(ApiUniverse, MaxFuncs)
        /\ readsLeft = 0
        /\ config \in ConfigUniverse
  /\ lastTrace = NoTrace
  /\ routesResult = NoRoutes
  /\ phase = "static"
  /\ staticTodo = webDistFiles
  /\ staticOutputs = EmptyMap
  /\ classified = {}
  /\ functionFiles = {}
  /\ funcTodo = {}
  /\ cur = <<>>
  /\ sourceCache = EmptyMap
  /\ fsCache = EmptyMap
  /\ lambdaOutputs = EmptyMap
  /\ packaged = {}
  /\ fsReads = EmptyMap
  /\ firstRet = EmptyMap
  /\ last = NoLast
  /\ nowConfig = NoConfig
  /\ manifest = NoManifest
  /\ abortCause = ""

\* ------------------------------------------------- static classification

\* HtmlKey with the directory forgotten: the stripped base name alone.
HtmlKeyBaseOnly(fileName, ref) == << pathBasename(fileName, "html") >>

\* The key under which the loop files an HTML document:
\* relative(webDistPath, join(parsePath(fsPath).dir, basename(fileName, '.html'))).
HtmlKey(fileName, ref) ==
  LET parsedPath == parsePath(ref.fsPath)
      fileNameWithoutExtension == pathBasename(fileName, "html")
      pathWithoutHtmlExtension ==
        join(parsedPath.dir, <<fileNameWithoutExtension>>)
  IN  relative(webDistPath, pathWithoutHtmlExtension)

\* parsedPath.ext !== '.html' is false.
IsHtmlRef(ref) ==
  LET parsedPath == parsePath(ref.fsPath)
  IN  parsedPath.hasExt /\ parsedPath.ext = "html"

\* One iteration of the loop over Object.entries(webDistFiles): the pair
\* <key, ref> it stores in staticOutputs.
ClassifyEntry(fileName, ref) ==
  IF ~IsHtmlRef(ref)
  THEN [key |-> fileName, ref |-> ref]
  ELSE [key |-> HtmlKey(fileName, ref),
        ref |-> [ref EXCEPT !.contentType = "text/html; charset=utf-8"]]

\* The loop visits the glob's entries in the glob's order, which the code
\* does not fix: any unvisited file may be next.
ClassifyStatic(fileName) ==
  /\ phase = "static"
  /\ fileName \in staticTodo
  /\ LET e == ClassifyEntry(fileName, GlobRef(webDistPath, fileName))
     IN  /\ staticOutputs' = MapSet(staticOutputs, e.key, e.ref)
         /\ classified' =
              classified \cup {[file |-> fileName, key |-> e.key, ref |-> e.ref]}
  /\ staticTodo' = staticTodo \ {fileName}
  /\ UNCHANGED << webDistFiles, apiTree, phase, functionFiles, funcTodo, cur,
                  sourceCache, fsCache, lambdaOutputs, packaged, config,
                  lastTrace, readsLeft, fsReads, firstRet, last, nowConfig,
                  routesResult, manifest, abortCause >>

\* ---------------------------------------------------- function discovery

\* Whether a base name ends in ".js" (the glob's "*.js").
MatchesStarJs(base) == Len(base) >= 2 /\ Last(base) = "js"

\* glob('*.js', apiDistPath): the .js files directly in the directory.
GlobTopLevel(tree) == { f \in tree : Len(f) = 1 /\ MatchesStarJs(f[1]) }

\* The second glob reaching any depth below the directory ('**/*.js').
GlobAnyDepth(tree) == { f \in tree : Len(f) >= 2 /\ MatchesStarJs(Last(f)) }

\* glob('*/*.js', apiDistPath): the .js files one directory down.
GlobOneLevelDeep(tree) == { f \in tree : Len(f) = 2 /\ MatchesStarJs(f[2]) }

\* { ...glob('*.js'), ...glob('*/*.js') }: the keys of both globs.
FunctionFiles(tree) == GlobTopLevel(tree) \cup GlobOneLevelDeep(tree)

\* The entries of the spread taken in any order.
NextFuncsAnyOrder(todo) == todo

\* Object.entries order of the spread: the top-level entries come before the
\* nested ones; within a glob the order is the glob's.
NextFuncs(todo) ==
  IF GlobTopLevel(todo) # {} THEN GlobTopLevel(todo) ELSE todo

\* The static loop is over; the two function globs run and the two caches
\* are created empty.
Discover ==
  /\ phase = "static"
  /\ staticTodo = {}
  /\ functionFiles' = FunctionFiles(apiTree)
  /\ funcTodo' = FunctionFiles(apiTree)
  /\ sourceCache' = EmptyMap
  /\ fsCache' = EmptyMap
  /\ phase' = "loop"
  /\ UNCHANGED << webDistFiles, apiTree, staticTodo, staticOutputs, classified,
                  cur, lambdaOutputs, packaged, config, lastTrace, readsLeft,
                  fsReads, firstRet, last, nowConfig, routesResult, manifest,
                  abortCause >>

\* join(apiDir, parsePath(funcName).name)
OutputName(funcName) == join(apiDir, <<parsePath(funcName).name>>)

\* fileFsRef.fsPath of a discovered function.
AbsEntrypoint(funcName) == GlobRef(apiDistPath, funcName).fsPath

\* relative(workPath, absEntrypoint)
RelativeEntrypoint(funcName) == relative(workPath, AbsEntrypoint(funcName))

\* getAWSLambdaHandler with the handler name attached to the whole base name,
\* extension included.
getAWSLambdaHandlerKeepsExt(filePath, handlerName) ==
  LET p == parsePath(filePath)
  IN  Append(p.dir, Append(p.base, handlerName))

\* getAWSLambdaHandler(filePath, handlerName): dir, a separator when dir is
\* not empty, then name "." handlerName.
getAWSLambdaHandler(filePath, handlerName) ==
  LET p == parsePath(filePath)
  IN  Append(p.dir, Append(p.name, handlerName))

\* String.prototype.replace('/dist/', '/src/'): the first "dist" that has a
\* separator on both sides becomes "src".
RECURSIVE ReplaceDist(_, _)
ReplaceDist(p, i) ==
  IF i >= Len(p) THEN p
  ELSE IF i > 1 /\ p[i] = <<"dist">> THEN [p EXCEPT ![i] = <<"src">>]
  ELSE ReplaceDist(p, i + 1)

\* The built path itself as the key of the lookup.
SourceFileBuilt(funcName) == RelativeEntrypoint(funcName)

\* relativeEntrypoint.replace('/dist/', '/src/')
SourceFile(funcName) == ReplaceDist(RelativeEntrypoint(funcName), 1)

\* The loop over Object.entries(functionFiles) takes its next entry and calls
\* nodeFileTrace on it.
StartTrace(funcName) ==
  /\ phase = "loop"
  /\ funcName \in NextFuncs(funcTodo)
  /\ cur' = funcName
  /\ funcTodo' = funcTodo \ {funcName}
  /\ phase' = "trace"
  /\ lastTrace' = NoTrace
  /\ UNCHANGED << webDistFiles, apiTree, staticTodo, staticOutputs, classified,
                  functionFiles, sourceCache, fsCache, lambdaOutputs, packaged,
                  config, readsLeft, fsReads, firstRet, last, nowConfig,
                  routesResult, manifest, abortCause >>

\* ------------------------------------------------------ readFile callback

\* What readFileSync followed by lstatSync can do for one path: the content
\* read (or the error code), then the file type (or the error code).
FsOutcomes ==
  { [read |-> "ok", data |-> <<>>, lstat |-> "regular"],
    [read |-> "ok", data |-> <<255>>, lstat |-> "symlink"],
    [read |-> "ok", data |-> <<255>>, lstat |-> "ENOENT"],
    [read |-> "ok", data |-> <<255>>, lstat |-> "EACCES"],
    [read |-> "ENOENT", data |-> <<>>, lstat |-> "regular"],
    [read |-> "EISDIR", data |-> <<>>, lstat |-> "regular"],
    [read |-> "EACCES", data |-> <<>>, lstat |-> "regular"] }

\* The error the try block throws for an outcome ("" when it throws none).
ThrownCode(o) ==
  IF o.read # "ok" THEN o.read
  ELSE IF o.lstat \notin {"regular", "symlink"} THEN o.lstat
  ELSE ""

\* CacheHit with an empty Buffer taken for a miss (a test of cached.length).
CacheHitNonEmpty(cached) == Truthy(cached) /\ cached.data # <<>>

\* if (cached) ...
CacheHit(cached) == Truthy(cached)

\* if (cached === null) ...
CachedNotFound(cached) == cached = Null

\* StoredSource caching the decoded text instead of the Buffer.
StoredSourceAsText(source) == toString(source)

\* What sourceCache.set stores on a successful read: the Buffer read.
StoredSource(source) == source

\* IsNotFoundCode with every error taken for "not found".
IsNotFoundAnyCode(code) == TRUE

\* e.code === 'ENOENT' || e.code === 'EISDIR'
IsNotFoundCode(code) == code \in {"ENOENT", "EISDIR"}

\* CacheNotFound with the miss returned but not remembered.
CacheNotFoundSkipped(sc, relPath) == sc

\* sourceCache.set(relPath, null) in the catch block.
CacheNotFound(sc, relPath) == MapSet(sc, relPath, Null)

\* The entry built for fsCache from the mode lstat reports.
CacheEntry(fsPath, source, mode) ==
  IF isSymbolicLink(mode) THEN FileFsRef(fsPath, mode, "undefined")
  ELSE FileBlob(source.data, mode)

\* The file-reference cache left as it is after a read.
SetFsCacheSkipped(fc, relPath, entry) == fc

\* fsCache.set(relPath, entry)
SetFsCache(fc, relPath, entry) == MapSet(fc, relPath, entry)

\* The readFile callback on caches sc and fc for absolute path fsPath, the
\* file system answering with outcome o if it is asked: the caches after the
\* call, the value returned, the error thrown ("" for none), whether the
\* file system was asked and the error code it answered with ("" for none).
readFile(sc, fc, fsPath, o) ==
  LET relPath == relative(workPath, fsPath)
      cached == MapGet(sc, relPath)
      source == Buffer(o.data)
      same == [sourceCache |-> sc, fsCache |-> fc, ret |-> Null,
               threw |-> "", touched |-> FALSE, code |-> ""]
  IN  IF CacheHit(cached) THEN [same EXCEPT !.ret = toString(cached)]
      ELSE IF CachedNotFound(cached) THEN same
      ELSE IF ThrownCode(o) = ""
      THEN [sourceCache |-> MapSet(sc, relPath, StoredSource(source)),
            fsCache |-> SetFsCache(fc, relPath,
                                   CacheEntry(fsPath, source, o.lstat)),
            ret |-> toString(source), threw |-> "", touched |-> TRUE,
            code |-> ""]
      ELSE IF IsNotFoundCode(ThrownCode(o))
      THEN [same EXCEPT !.sourceCache = CacheNotFound(sc, relPath),
                        !.touched = TRUE, !.code = ThrownCode(o)]
      ELSE [same EXCEPT !.threw = ThrownCode(o), !.ret = NoRet,
                        !.touched = TRUE, !.code = ThrownCode(o)]

\* The paths the resolver may ask for while it traces `cur`.
ReadablePaths(funcName) == SharedDeps \cup {AbsEntrypoint(funcName)}

\* The resolver calls readFile(fsPath) during the trace of `cur`. The callback
\* has no await: it runs to its return or throw in one step. An error it
\* throws rejects nodeFileTrace, which `build` does not catch.
ReadFile(fsPath, o) ==
  /\ phase = "trace"
  /\ readsLeft > 0
  /\ fsPath \in ReadablePaths(cur)
  /\ LET relPath == relative(workPath, fsPath)
         r == readFile(sourceCache, fsCache, fsPath, o)
     IN  /\ sourceCache' = r.sourceCache
         /\ fsCache' = r.fsCache
         /\ fsReads' = IF r.touched
                       THEN MapSet(fsReads, relPath,
                                   IF relPath \in DOMAIN fsReads
                                   THEN fsReads[relPath] + 1 ELSE 1)
                       ELSE fsReads
         /\ firstRet' = IF relPath \in DOMAIN firstRet \/ r.threw # ""
                        THEN firstRet
                        ELSE MapSet(firstRet, relPath, r.ret)
         /\ last' = [path |-> relPath, ret |-> r.ret, touched |-> r.touched,
                     repeat |-> relPath \in DOMAIN firstRet,
                     code |-> r.code, during |-> cur]
         /\ phase' = IF r.threw = "" THEN "trace" ELSE "aborted"
         /\ abortCause' = IF r.threw = "" THEN abortCause ELSE "readFile"
  /\ readsLeft' = readsLeft - 1
  /\ UNCHANGED << webDistFiles, apiTree, staticTodo, staticOutputs, classified,
                  functionFiles, funcTodo, cur, lambdaOutputs, packaged,
                  config, lastTrace, nowConfig, routesResult, manifest >>

\* --------------------------------------------------------------- packaging

\* The project-relative paths the resolver can report: those it was given
\* content for.
Reportable(sc) == { k \in DOMAIN sc : sc[k].type \notin {"null", "undefined"} }

\* The paths the resolver may report for the trace of funcName: those it
\* requests through readFile for this entrypoint and that have content.
Closure(funcName, sc) ==
  { relPath \in Reportable(sc) :
      join(workPath, relPath) \in ReadablePaths(funcName) }

\* await FileFsRef.fromFsPath({ fsPath: join(workPath, filePath) }): a new
\* reference to the path, with the mode a fresh lstat of it reports.
fromFsPath(filePath, mode) ==
  FileFsRef(join(workPath, filePath), mode, "undefined")

\* The file type lstat reports for a traced path: the type the first read of
\* the path saw (the tree does not change type under the run).
StatMode(fc, filePath) ==
  IF filePath \in DOMAIN fc THEN fc[filePath].mode ELSE "regular"

\* LambdaFiles without the entrypoint's own file: what the resolver reported
\* and nothing more.
LambdaFilesTracedOnly(funcName, fileList, esmFileList, fc) ==
  [filePath \in fileList \cup esmFileList |->
     fromFsPath(filePath, StatMode(fc, filePath))]

\* lambdaFiles: one FileFsRef.fromFsPath per path of [...fileList,
\* ...esmFileList], then the entrypoint's own glob entry under its relative
\* path. The file-reference cache fc is not consulted for the entries.
LambdaFiles(funcName, fileList, esmFileList, fc) ==
  LET allFiles == fileList \cup esmFileList
      traced == [filePath \in allFiles |->
                   fromFsPath(filePath, StatMode(fc, filePath))]
      fileFsRef == GlobRef(apiDistPath, funcName)
  IN  MapSet(traced, relative(workPath, fileFsRef.fsPath), fileFsRef)

\* new NodejsLambda({ ... })
NodejsLambda(funcName, files, cfg) ==
  [files |-> files,
   handler |-> RelativeEntrypoint(funcName),
   memory |-> getLambdaOptionsFromFunction(SourceFile(funcName), cfg).memory,
   maxDuration |->
     getLambdaOptionsFromFunction(SourceFile(funcName), cfg).maxDuration,
   shouldAddHelpers |-> FALSE,
   shouldAddSourcemapSupport |-> FALSE,
   awsLambdaHandler |->
     getAWSLambdaHandler(RelativeEntrypoint(funcName), "handler")]

\* nodeFileTrace resolves with fileList, esmFileList and warnings, and the
\* loop body runs to its end: the warnings are logged, the file set is
\* assembled (fromFsPath stats each traced path and rejects when the stat
\* fails, which nothing catches) and the lambda is stored under its output
\* name.
Package(fileList, esmFileList, warnings, statOk) ==
  /\ phase = "trace"
  /\ fileList \subseteq Closure(cur, sourceCache)
  /\ esmFileList \subseteq Closure(cur, sourceCache)
  /\ statOk \/ fileList \cup esmFileList # {}
  /\ lastTrace' = [func |-> cur, fileList |-> fileList,
                   esmFileList |-> esmFileList, warnings |-> warnings,
                   logged |-> WarningsLoop(warnings).logged]
  /\ IF WarningsLoop(warnings).threw
     THEN /\ phase' = "aborted"
          /\ abortCause' = "warning"
          /\ UNCHANGED << lambdaOutputs, packaged, cur >>
     ELSE IF statOk
     THEN /\ lambdaOutputs' =
               MapSet(lambdaOutputs, OutputName(cur),
                      NodejsLambda(cur,
                                   LambdaFiles(cur, fileList, esmFileList,
                                               fsCache),
                                   config))
          /\ packaged' =
               packaged \cup {[func |-> cur, outputName |-> OutputName(cur)]}
          /\ phase' = "loop"
          /\ cur' = <<>>
          /\ UNCHANGED abortCause
     ELSE /\ phase' = "aborted"
          /\ abortCause' = "package"
          /\ UNCHANGED << lambdaOutputs, packaged, cur >>
  /\ UNCHANGED << webDistFiles, apiTree, staticTodo, staticOutputs, classified,
                  functionFiles, funcTodo, sourceCache, fsCache, config,
                  readsLeft, fsReads, firstRet, last, nowConfig, routesResult,
                  manifest >>

\* ------------------------------------------------------------------ routes

\* existsSync(p) for a path below the static root.
existsSync(p) == relative(webDistPath, p) \in webDistFiles

\* fallbackHtmlPage of the versions that knew no 200.html.
fallbackHtmlPageIndexOnly == << <<"index">> >>

\* existsSync(join(webDistPath, '200.html')) ? '/200' : '/index', as the
\* segments after the leading "/".
fallbackHtmlPage ==
  IF existsSync(join(webDistPath, << <<"200", "html">> >>))
  THEN << <<"200">> >>
  ELSE << <<"index">> >>

\* NowConfig with a second rewrite, for the root index, after the fallback.
NowConfigTwoRewrites(destination) ==
  [rewrites |-> << [source |-> "/(.*)", destination |-> destination],
                   [source |-> "/", destination |-> << <<"index">> >>] >>,
   cleanUrls |-> TRUE,
   trailingSlash |-> FALSE]

\* The nowConfig argument of getTransformedRoutes.
NowConfig(destination) ==
  [rewrites |-> << [source |-> "/(.*)", destination |-> destination] >>,
   cleanUrls |-> TRUE,
   trailingSlash |-> FALSE]

\* getTransformedRoutes({ nowConfig }): one rule per rewrite, or an error.
getTransformedRoutes(cfg, fails) ==
  IF fails
  THEN [error |-> TRUE, routes |-> <<>>]
  ELSE [error |-> FALSE,
        routes |-> [i \in 1..Len(cfg.rewrites) |->
                      [src |-> cfg.rewrites[i].source,
                       dest |-> cfg.rewrites[i].destination,
                       cleanUrls |-> cfg.cleanUrls,
                       trailingSlash |-> cfg.trailingSlash]]]

\* The error test with the error ignored.
RoutesErrorIgnored(defaultRoutesConfig) == FALSE

\* if (defaultRoutesConfig.error)
RoutesError(defaultRoutesConfig) == defaultRoutesConfig.error

\* return { output: { ...staticOutputs, ...lambdaOutputs }, routes }
Manifest(statics, lambdas, routes) ==
  [output |-> Spread(statics, lambdas), routes |-> routes, returned |-> TRUE]

\* The function loop is over: the fallback is chosen, the routes are
\* transformed, and `build` throws the transformation's error or returns the
\* manifest.
Finish(transformFails) ==
  /\ phase = "loop"
  /\ funcTodo = {}
  /\ LET cfg == NowConfig(fallbackHtmlPage)
         defaultRoutesConfig == getTransformedRoutes(cfg, transformFails)
     IN  /\ nowConfig' = cfg
         /\ routesResult' = defaultRoutesConfig
         /\ lastTrace' = NoTrace
         /\ IF RoutesError(defaultRoutesConfig)
            THEN /\ phase' = "aborted"
                 /\ abortCause' = "routes"
                 /\ UNCHANGED manifest
            ELSE /\ phase' = "done"
                 /\ manifest' = Manifest(staticOutputs, lambdaOutputs,
                                         defaultRoutesConfig.routes)
                 /\ UNCHANGED abortCause
  /\ UNCHANGED << webDistFiles, apiTree, staticTodo, staticOutputs, classified,
                  functionFiles, funcTodo, cur, sourceCache, fsCache,
                  lambdaOutputs, packaged, config, readsLeft, fsReads,
                  firstRet, last >>

\* ----------------------------------------------------------- specification

Next ==
  \/ \E fileName \in StaticUniverse : ClassifyStatic(fileName)
  \/ Discover
  \/ \E funcName \in ApiUniverse : StartTrace(funcName)
  \/ \E fsPath \in SharedDeps \cup { AbsEntrypoint(f) : f \in ApiUniverse },
        o \in FsOutcomes : ReadFile(fsPath, o)
  \/ \E fileList \in SUBSET DOMAIN sourceCache,
        esmFileList \in SUBSET DOMAIN sourceCache,
        warnings \in SUBSET WarningUniverse, statOk \in BOOLEAN :
       Package(fileList, esmFileList, warnings, statOk)
  \/ \E transformFails \in BOOLEAN : Finish(transformFails)

Spec == Init /\ [][Next]_vars

\* ------------------------------------------------------------- Path Cache

\* The project-relative path of the dependency every entrypoint may share.
SharedDepRel ==
  relative(workPath, CHOOSE d \in SharedDeps : TRUE)

\* C1: within one run, only the first request for a path reaches the file
\* system (readFileSync is called at most once per path), and a later request
\* for that path, from the trace of any entrypoint, reaches no file system
\* and returns what the first request returned.
C1_FirstReadOnly ==
  /\ \A p \in DOMAIN fsReads : fsReads[p] <= 1
  /\ last.repeat =>
       /\ ~last.touched
       /\ last.ret = firstRet[last.path]

\* C1 witness: a path whose content was read once has been requested again
\* and answered with content.
C1_Witness ==
  /\ last.repeat
  /\ last.ret.type = "string"
  /\ last.path \in DOMAIN fsReads
  /\ fsReads[last.path] = 1

\* C2: a read that failed with ENOENT or EISDIR leaves null in the content
\* cache, which is not the undefined of a path never looked up, and every
\* later read of that path returns null with no further file-system call.
C2_NotFoundCached ==
  \A p \in DOMAIN firstRet :
    firstRet[p] = Null =>
      /\ p \in DOMAIN sourceCache
      /\ sourceCache[p] = Null
      /\ MapGet(sourceCache, p) # Undefined
      /\ fsReads[p] = 1
      /\ last.path = p => last.ret = Null
      /\ (last.path = p /\ last.repeat) => ~last.touched

\* C2 witness: a path that was found missing has been requested again.
C2_Witness ==
  /\ last.repeat
  /\ last.ret = Null
  /\ last.code = ""
  /\ sourceCache[last.path] = Null

\* One step keeps every entry of both cache tables and every first answer,
\* and answers a path that was answered before with that first answer.
CacheStepMonotonic ==
  /\ \A p \in DOMAIN sourceCache :
       p \in DOMAIN sourceCache' /\ sourceCache'[p] = sourceCache[p]
  /\ \A p \in DOMAIN fsCache :
       p \in DOMAIN fsCache' /\ fsCache'[p] = fsCache[p]
  /\ \A p \in DOMAIN firstRet :
       /\ p \in DOMAIN firstRet' /\ firstRet'[p] = firstRet[p]
       /\ (last' # last /\ last'.path = p) => last'.ret = firstRet[p]

\* C3: the Path Cache is monotonic under every interleaving of the read
\* requests of the traces: an entry is inserted only when absent and is never
\* updated or deleted, so no path is given two different values to two
\* readers of one run.
C3_CacheMonotonic == [][CacheStepMonotonic]_vars

\* C3 witness: the dependency the entrypoints share is requested again during
\* the trace of a second entrypoint, after the first was packaged.
C3_Witness ==
  /\ phase = "trace"
  /\ packaged # {}
  /\ last.repeat
  /\ last.during = cur
  /\ last.path = SharedDepRel

\* C4: a file access failure that is neither ENOENT nor EISDIR is not cached
\* as NotFound: it aborts the run, and an aborted run returns no manifest.
C4_FatalReadAborts ==
  /\ last.code \notin {"", "ENOENT", "EISDIR"} =>
       /\ phase = "aborted"
       /\ abortCause = "readFile"
       /\ last.path \notin DOMAIN sourceCache
       /\ last.path \notin DOMAIN fsCache
  /\ phase = "aborted" => ~manifest.returned

\* C4 witness: a read has failed with EACCES.
C4_Witness ==
  /\ last.code = "EACCES"
  /\ last.touched
  /\ phase = "aborted"

\* -------------------------------------------------------- output names

\* Two packaged functions share an output name, or a packaged function has
\* the request path of a static asset.
OutputNameCollision ==
  \/ \E a \in packaged, b \in packaged :
       a.func # b.func /\ a.outputName = b.outputName
  \/ \E a \in packaged, c \in classified : a.outputName = c.key

\* C5: when two outputs of a run have the same output name the run aborts
\* with a collision error, so no manifest is returned in which one entry has
\* taken the place of another.
C5_CollisionAborts == manifest.returned => ~OutputNameCollision

\* C6: the packaging failure of one function does not abort the run: the
\* function is left out and the others are still packaged and returned.
C6_PackagingFailureIsLocal == abortCause # "package"

\* ------------------------------------------------------------------ routes

File200 == << <<"200", "html">> >>

\* The clean-URL path of the catch-all document when the static root holds
\* it (the request path it was classified under), of the root index when not.
ExpectedFallback ==
  IF File200 \in webDistFiles
  THEN (CHOOSE c \in classified : c.file = File200).key
  ELSE << <<"index">> >>

\* C7: the fallback destination is decided by the presence of 200.html in the
\* static root alone: /200 when it is there, /index when it is not; the one
\* rewrite requested matches every path, with clean URLs on and trailing
\* slashes off.
C7_FallbackDestination ==
  (manifest.returned \/ abortCause = "routes") =>
    /\ Len(nowConfig.rewrites) = 1
    /\ nowConfig.rewrites[1].source = "/(.*)"
    /\ nowConfig.rewrites[1].destination = ExpectedFallback
    /\ nowConfig.rewrites[1].destination =
         (IF File200 \in webDistFiles THEN << <<"200">> >> ELSE << <<"index">> >>)
    /\ nowConfig.cleanUrls = TRUE
    /\ nowConfig.trailingSlash = FALSE

\* C7 witness: a manifest was returned for a static root that holds 200.html
\* (and no index.html).
C7_Witness ==
  /\ manifest.returned
  /\ File200 \in webDistFiles
  /\ << <<"index", "html">> >> \notin webDistFiles
  /\ nowConfig.rewrites[1].destination = << <<"200">> >>

\* C8: the route table of every returned manifest is exactly one rule, the
\* catch-all fallback rule, which is therefore the last rule.
C8_SingleFallbackRule ==
  manifest.returned =>
    /\ Len(manifest.routes) = 1
    /\ manifest.routes[Len(manifest.routes)].src = "/(.*)"
    /\ manifest.routes[Len(manifest.routes)].dest = nowConfig.rewrites[1].destination

\* C8 witness: a manifest with a route table and a function was returned.
C8_Witness ==
  /\ manifest.returned
  /\ manifest.routes # <<>>
  /\ lambdaOutputs # EmptyMap

\* ------------------------------------------------- static classification

\* A path's last name ends in ".html".
EndsInHtml(p) == p # <<>> /\ Len(Last(p)) >= 2 /\ Last(Last(p)) = "html"

\* A file whose name is <stem>.html with a stem that is not empty, "." or
\* "..".
HasHtmlExtension(file) ==
  /\ EndsInHtml(file)
  /\ Front(Last(file)) \notin { <<"">>, DotSeg, DotDotSeg }

\* The relative path with the last ".html" of its last name removed.
WithoutHtml(file) == Append(Front(file), Front(Last(file)))

\* What the glob hands the loop for a file.
OriginalRef(file) == GlobRef(webDistPath, file)

\* Every classified file that does not end in .html keeps its relative path
\* and its descriptor.
NonDocumentsUnchanged ==
  \A c \in classified :
    ~EndsInHtml(c.file) => c.key = c.file /\ c.ref = OriginalRef(c.file)

C10_StaticCollisionAborts ==
  manifest.returned =>
    \A a \in classified, b \in classified : a.key = b.key => a.file = b.file

\* ------------------------------------------------------- function packaging

\* The function a packaged unit was built from, by its handler file.
UnitFunc(lambda) ==
  CHOOSE f \in ApiUniverse : RelativeEntrypoint(f) = lambda.handler

\* p with the extension of its last segment replaced by ext.
WithExtension(p, ext) == Append(Front(p), Append(Front(Last(p)), ext))

\* The handler reference as stated with the build-output directory stripped:
\* the path of the function below the functions directory, its extension
\* replaced by `handler` (functions/graphql.js has graphql.handler).
C11_HandlerPrefixStripped ==
  \A k \in DOMAIN lambdaOutputs :
    lambdaOutputs[k].awsLambdaHandler =
      WithExtension(UnitFunc(lambdaOutputs[k]), "handler")

\* C11: the handler reference of a unit is the project-relative path of its
\* built entrypoint, the build-output directory prefix kept, with the
\* extension replaced by `handler`: the function built at
\* api/dist/functions/graphql.js has api/dist/functions/graphql.handler.
C11_HandlerReference ==
  \A k \in DOMAIN lambdaOutputs :
    lambdaOutputs[k].awsLambdaHandler =
      WithExtension(<< <<"api">>, <<"dist">>, <<"functions">> >>
                      \o UnitFunc(lambdaOutputs[k]), "handler")

\* C11 witness: graphql.js is packaged, and so is a nested function.
C11_Witness ==
  /\ \E k \in DOMAIN lambdaOutputs :
       lambdaOutputs[k].awsLambdaHandler =
         << <<"api">>, <<"dist">>, <<"functions">>, <<"graphql", "handler">> >>
  /\ \E k \in DOMAIN lambdaOutputs : Len(UnitFunc(lambdaOutputs[k])) = 2

\* The trace that just resolved was packaged into a unit.
JustPackaged ==
  /\ lastTrace.func # <<>>
  /\ phase = "loop"

\* The unit of the function that was just packaged.
LastUnit == lambdaOutputs[OutputName(lastTrace.func)]

\* The paths the resolver reported for the trace that just resolved.
LastClosure == lastTrace.fileList \cup lastTrace.esmFileList

\* C12: in the file set of a unit, the entry of every path of the traced
\* closures (one entry per path) is the entry the file-reference cache holds
\* for that path, so that a dependency two functions share is the same cached
\* entry in both units.
C12_EntriesFromPathCache ==
  JustPackaged =>
    \A filePath \in LastClosure \ {RelativeEntrypoint(lastTrace.func)} :
      /\ filePath \in DOMAIN LastUnit.files
      /\ filePath \in DOMAIN fsCache
      /\ LastUnit.files[filePath] = fsCache[filePath]

\* C13: the file set of a unit contains the built file of its entrypoint,
\* reported by the resolver or not, and every path of the fileList and of the
\* esmFileList the resolver returned for that entrypoint.
C13_FileSetComplete ==
  JustPackaged =>
    /\ LastUnit.handler = RelativeEntrypoint(lastTrace.func)
    /\ << <<"api">>, <<"dist">>, <<"functions">> >> \o lastTrace.func
         \in DOMAIN LastUnit.files
    /\ lastTrace.fileList \subseteq DOMAIN LastUnit.files
    /\ lastTrace.esmFileList \subseteq DOMAIN LastUnit.files

\* C13 witness: a unit was packaged from a trace that did not report the
\* entrypoint and reported a path in esmFileList only.
C13_Witness ==
  /\ JustPackaged
  /\ RelativeEntrypoint(lastTrace.func) \notin LastClosure
  /\ lastTrace.esmFileList \ lastTrace.fileList # {}

\* C14: the output name of a function is its path below the functions
\* directory with the extension stripped, under the API mount prefix, the
\* directory of a nested function kept (dir/name.js is prefix/dir/name), and
\* two functions never get the same output name.
C14_NestingPreserved ==
  /\ \A r \in packaged :
       r.outputName =
         << <<"api">> >> \o Front(r.func) \o << Front(Last(r.func)) >>
  /\ \A a, b \in packaged : a.func # b.func => a.outputName # b.outputName

\* ---------------------------------------------------------------- two runs

\* The request path of a static file, from its name alone.
StaticName(file) == IF HasHtmlExtension(file) THEN WithoutHtml(file) ELSE file

\* The output name of a function file, from its name alone.
FunctionName(funcName) == << <<"api">>, Front(Last(funcName)) >>

\* The function files of a tree: at most one directory deep.
TreeFunctions(tree) ==
  { f \in tree : Len(f) <= 2 /\ Last(Last(f)) = "js" }

\* The function that holds an output name in the end: a nested one when
\* there is one, as the nested entries are packaged after the top-level ones.
NameHolder(name, tree) ==
  LET named == { f \in TreeFunctions(tree) : FunctionName(f) = name }
  IN  IF \E f \in named : Len(f) = 2
      THEN CHOOSE f \in named : Len(f) = 2
      ELSE CHOOSE f \in named : TRUE

AllPackaged ==
  /\ staticTodo = {}
  /\ { c.file : c \in classified } = webDistFiles
  /\ funcTodo = {}
  /\ cur = <<>>
  /\ functionFiles = FunctionFiles(apiTree)
  /\ { r.func : r \in packaged } = functionFiles

\* C16: when the route transformation reports an error the run has aborted
\* with it, after every function was packaged, and there is no manifest; and
\* a manifest is returned only when the classification, the trace and
\* packaging of every function and the route transformation all completed
\* with no error.
C16_RouteErrorAborts ==
  /\ routesResult.error =>
       /\ phase = "aborted"
       /\ abortCause = "routes"
       /\ ~manifest.returned
       /\ AllPackaged
  /\ manifest.returned =>
       /\ phase = "done"
       /\ abortCause = ""
       /\ ~routesResult.error
       /\ manifest.routes = routesResult.routes
       /\ AllPackaged

\* C16 witness: the route transformation reported an error after two
\* functions were packaged.
C16_Witness ==
  /\ routesResult.error
  /\ Cardinality(packaged) = 2

\* ----------------------------------------------------------------- warnings

\* A warning that carries a stack.
CarriesStack(warning) ==
  warning.stack.type = "string" /\ warning.stack.data # <<>>

\* Warnings abort nothing and change nothing: whatever warnings a trace
\* resolved with, the run did not abort on them, and unless the packaging
\* itself failed the function is in the outputs with the file set of its
\* trace.
WarningsHarmless ==
  lastTrace.func # <<>> =>
    /\ abortCause \in {"", "package"}
    /\ abortCause = "" =>
         /\ JustPackaged
         /\ OutputName(lastTrace.func) \in DOMAIN lambdaOutputs
         /\ LastUnit.handler = RelativeEntrypoint(lastTrace.func)
         /\ DOMAIN LastUnit.files =
              LastClosure \cup {RelativeEntrypoint(lastTrace.func)}

SourcePath(funcName) == << <<"api">>, <<"src">>, <<"functions">> >> \o funcName

\* C18: the memory and maxDuration of a unit are those of the override the
\* configuration keys by the source path of its function (the built path
\* with dist mapped to src), and the global defaults when there is no such
\* override, an override keyed by the built path notwithstanding.
C18_LimitsBySourcePath ==
  \A k \in DOMAIN lambdaOutputs :
    LET unit == lambdaOutputs[k]
        key == SourcePath(UnitFunc(unit))
        limits == IF key \in DOMAIN config.functions
                  THEN config.functions[key]
                  ELSE config.defaults
    IN  /\ unit.memory = limits.memory
        /\ unit.maxDuration = limits.maxDuration

\* C18 witness: under a configuration with an override a unit got the
\* override, or got the defaults because the override is keyed by its built
\* path.
C18_Witness ==
  \E k \in DOMAIN lambdaOutputs :
    /\ config.functions # EmptyMap
    /\ \/ /\ SourcePath(UnitFunc(lambdaOutputs[k])) \in DOMAIN config.functions
          /\ lambdaOutputs[k].memory # config.defaults.memory
       \/ /\ lambdaOutputs[k].handler \in DOMAIN config.functions
          /\ lambdaOutputs[k].memory = config.defaults.memory

\* ---------------------------------------------------------------- discovery

\* C19: discovery yields exactly the .js files that lie directly in the
\* functions directory or one directory below it; a file two or more levels
\* down is never an entrypoint, is never traced or packaged and is behind no
\* unit.
C19_DiscoveryDepth ==
  /\ phase # "static" =>
       functionFiles =
         { f \in apiTree : Len(f) \in {1, 2} /\ Last(Last(f)) = "js" }
  /\ \A f \in functionFiles \cup funcTodo \cup { r.func : r \in packaged } :
       f \in apiTree /\ Len(f) <= 2
  /\ cur # <<>> => Len(cur) <= 2
  /\ \A k \in DOMAIN lambdaOutputs : Len(UnitFunc(lambdaOutputs[k])) <= 2

\* C19 witness: a manifest was returned for a tree that holds a function
\* file two levels down beside a function that was packaged.
C19_Witness ==
  /\ manifest.returned
  /\ \E f \in apiTree : Len(f) > 2
  /\ packaged # {}

\* ------------------------------------------------------------ cache tables

\* C20: the two caches agree in every state: a path has an entry in fsCache
\* exactly when sourceCache holds content for it, and a path that
\* sourceCache holds null for has none.
C20_CachesConsistent ==
  /\ DOMAIN fsCache =
       { relPath \in DOMAIN sourceCache : sourceCache[relPath].type = "Buffer" }
  /\ \A relPath \in DOMAIN sourceCache :
       sourceCache[relPath].type \in {"Buffer", "null"}
  /\ \A relPath \in DOMAIN sourceCache :
       sourceCache[relPath].type = "null" => relPath \notin DOMAIN fsCache

\* C20 witness: the caches hold content for one path and null for another,
\* the latest read having found nothing.
C20_Witness ==
  /\ fsCache # EmptyMap
  /\ \E relPath \in DOMAIN sourceCache : sourceCache[relPath].type = "null"
  /\ last.code = "ENOENT"

====
